---- MODULE Spec2Model ----
(***************************************************************************)
(* Sparrow, the trip planner: the write paths of sparrow/core/serializers  *)
(* over the schema of sparrow/core/models.                                 *)
(*                                                                         *)
(* The store is the relational database (one variable per table that the   *)
(* write paths touch), `today` is the value of date.today(), and           *)
(* `response` is the outcome of the request handled last.  Every action is *)
(* one request, handled whole: field validation, validate(), and           *)
(* create()/update()/save() with the parent class's write.                 *)
(***************************************************************************)
EXTENDS Integers, FiniteSets, TLC

VARIABLES users, members, groups, routes, notebooks, today, response,
          belongsTo, attractions, isWithin, statuses, images

\* the tables that only memberships and deletions touch
otherTables == <<belongsTo, attractions, isWithin, statuses, images>>

vars == <<users, members, groups, routes, notebooks, today, response,
          otherTables>>

----------------------------------------------------------------------------
(* Bounds of the model *)

MaxUsers == 2
MaxRegistrations == 1
MaxGroups == 1
MaxRoutes == 1
MaxNotebooks == 1
MaxDay == 2
MaxRating == 3
MaxAttractions == 2
MaxMemberships == 3
MaxImages == 2

----------------------------------------------------------------------------
(* Values *)

\* Python's None; primary keys and dates start at 1
Null == 0

UserIds == 1..MaxUsers
GroupIds == 1..MaxGroups
RouteIds == 1..MaxRoutes
NotebookIds == 1..MaxNotebooks
Passwords == {1, 2}
AttractionIds == 1..MaxAttractions
BelongsToIds == 1..MaxMemberships
IsWithinIds == 1..(MaxRoutes * MaxAttractions)
ImageIds == 1..MaxImages
Ratings == 1..MaxRating

\* the labels of the rows of the Status table
StatusLabels == {"Ongoing", "Completed", "Planned"}

Emails == {"ann@sparrow.io"}
Titles == {"Alps"}

\* what a handler ends with
Ok == "ok"
ValidationError == "ValidationError"
DoesNotExist == "DoesNotExist"
KeyError == "KeyError"

NoResponse == [op |-> "none"]

\* A dict (validated_data, context) is a function from the keys it holds.
Has(data, key) == key \in DOMAIN data

\* dict.get(key): None for a key the dict does not hold
Get(data, key) == IF key \in DOMAIN data THEN data[key] ELSE Null

\* the dicts of `dicts`, and each of them with `key` set to a value of `values`
Optional(dicts, key, values) ==
    dicts \cup {d @@ (key :> v) : d \in dicts, v \in values}

----------------------------------------------------------------------------
(* django.contrib.auth: password hashing and the password policy *)

Salts == {0, 1}

\* the digest of a raw password under a salt; for one salt, different raw
\* passwords have different digests
Digest(salt, raw) == (raw * 7 + salt * 3) % 31

\* User.set_password stores the salt and the digest, never the raw password
make_password(raw, salt) == [salt |-> salt, digest |-> Digest(salt, raw)]

check_password(raw, encoded) == Digest(encoded.salt, raw) = encoded.digest

\* the passwords the configured validators turn down
WeakPasswords == {1}

validate_password(raw) == raw \notin WeakPasswords

----------------------------------------------------------------------------
(* The tables *)

\* a table is a function from the primary keys of its rows
UserRows == DOMAIN users
MemberRows == DOMAIN members
GroupRows == DOMAIN groups
RouteRows == DOMAIN routes
NotebookRows == DOMAIN notebooks

\* Model.save() of a row: inserted, or written over the row of that key
Save(table, id, row) ==
    [i \in DOMAIN table \cup {id} |-> IF i = id THEN row ELSE table[i]]

\* the primary key the database gives the next row of a table
NextId(ids, rows) == CHOOSE i \in ids \ rows : \A j \in ids \ rows : i <= j

\* Member.objects.get(baseUser=ref): the Member whose primary key, the
\* account's id, is ref; Null stands for the DoesNotExist it raises
MemberGet(ref) == IF ref \in MemberRows THEN ref ELSE Null

DefaultProfilePhoto == "default-profile-photo.jpeg"

----------------------------------------------------------------------------
(* Registration *)

\* Member.birthDate is nullable
BirthDates == {Null, 1}
ProfilePhotos == {"me.jpeg"}

\* the validated data of a registration: email, birthDate and profilePhoto
\* are not required (username, first and last name are stored as given)
RegisterUserData ==
    Optional([password : Passwords, passwordCheck : Passwords],
             "email", Emails \cup {""})

RegisterData ==
    Optional(Optional([baseUser : RegisterUserData], "birthDate", BirthDates),
             "profilePhoto", ProfilePhotos)

\* RegisterUserSerializer.save without the comparison of the two passwords
RegisterUserSave_NoPasswordCheck(data, salt) ==
    IF ~Has(data, "email") \/ data.email = ""
    THEN [outcome |-> ValidationError, users |-> users, id |-> Null]
    ELSE LET id == NextId(UserIds, UserRows)
         IN  [outcome |-> Ok,
              users |-> Save(users, id,
                             [password |-> make_password(data.password, salt),
                              email |-> data.email]),
              id |-> id]

\* RegisterUserSerializer.save: the outcome and the User table after it
RegisterUserSave(data, salt) ==
    IF data.password # data.passwordCheck
    THEN [outcome |-> ValidationError, users |-> users, id |-> Null]
    ELSE IF ~Has(data, "email") \/ data.email = ""
    THEN [outcome |-> ValidationError, users |-> users, id |-> Null]
    ELSE LET id == NextId(UserIds, UserRows)
         IN  [outcome |-> Ok,
              users |-> Save(users, id,
                             [password |-> make_password(data.password, salt),
                              email |-> data.email]),
              id |-> id]

\* RegisterMemberSerializer.save: the account is saved first, the Member is
\* built from validated_data['birthDate'] afterwards, and nothing undoes the
\* account's save when that raises
RegisterMemberSave(data, salt) ==
    LET base == RegisterUserSave(data.baseUser, salt)
    IN  IF base.outcome # Ok
        THEN [outcome |-> base.outcome, users |-> users, members |-> members]
        ELSE IF ~Has(data, "birthDate")
        THEN [outcome |-> KeyError, users |-> base.users, members |-> members]
        ELSE [outcome |-> Ok,
              users |-> base.users,
              members |-> Save(members, base.id,
                  [profilePhoto |-> IF Has(data, "profilePhoto")
                                    THEN data.profilePhoto
                                    ELSE DefaultProfilePhoto,
                   birthDate |-> data.birthDate])]

\* one registration request (the tables are capped at MaxRegistrations
\* accounts)
Register ==
    /\ Cardinality(UserRows) < MaxRegistrations
    /\ \E data \in RegisterData, salt \in Salts :
          LET r == RegisterMemberSave(data, salt)
          IN  /\ users' = r.users
              /\ members' = r.members
              /\ response' = [op |-> "register", data |-> data,
                              outcome |-> r.outcome]
    /\ UNCHANGED <<groups, routes, notebooks, today>>
    /\ UNCHANGED otherTables

----------------------------------------------------------------------------
(* Change of password *)

ChangePasswordData == [password : Passwords, newPassword : Passwords]

\* ChangePasswordSerializer.update without validate_password
ChangePasswordUpdate_NoPolicy(instance, data, salt) ==
    IF ~check_password(data.password, instance.password)
    THEN [outcome |-> ValidationError, password |-> instance.password]
    ELSE [outcome |-> Ok, password |-> make_password(data.newPassword, salt)]

\* ChangePasswordSerializer.update: the outcome and the stored credential
ChangePasswordUpdate(instance, data, salt) ==
    IF ~check_password(data.password, instance.password)
    THEN [outcome |-> ValidationError, password |-> instance.password]
    ELSE IF ~validate_password(data.newPassword)
    THEN [outcome |-> ValidationError, password |-> instance.password]
    ELSE [outcome |-> Ok, password |-> make_password(data.newPassword, salt)]

ChangePassword ==
    /\ \E id \in UserRows, data \in ChangePasswordData, salt \in Salts :
          LET r == ChangePasswordUpdate(users[id], data, salt)
          IN  /\ users' = [users EXCEPT ![id].password = r.password]
              /\ response' = [op |-> "change_password", id |-> id, data |-> data,
                              outcome |-> r.outcome]
    /\ UNCHANGED <<members, groups, routes, notebooks, today>>
    /\ UNCHANGED otherTables

\* a table without rows
NoRows == <<>>

\* the Status table, one row of each label with the label for its key
StatusTable == [label \in StatusLabels |-> [status |-> label]]

\* no memberships, attractions, route stops or images, and every Status
InitOtherTables ==
    /\ belongsTo = NoRows
    /\ attractions = NoRows
    /\ isWithin = NoRows
    /\ statuses = StatusTable
    /\ images = NoRows

\* the empty database
InitAccount ==
    /\ users = NoRows
    /\ members = NoRows
    /\ groups = NoRows
    /\ routes = NoRows
    /\ notebooks = NoRows
    /\ today = 1
    /\ response = NoResponse
    /\ InitOtherTables

NextAccount == Register \/ ChangePassword

SpecAccount == InitAccount /\ [][NextAccount]_vars

----------------------------------------------------------------------------
(* Groups *)

GroupNames == {"hikers"}

\* WriteGroupSerializer: the ModelSerializer's own create
GroupCreate ==
    /\ GroupRows # GroupIds
    /\ \E name \in GroupNames :
          LET id == NextId(GroupIds, GroupRows)
          IN  /\ groups' = Save(groups, id, [name |-> name])
              /\ response' = [op |-> "group_create", id |-> id, outcome |-> Ok]
    /\ UNCHANGED <<users, members, routes, notebooks, today>>
    /\ UNCHANGED otherTables

----------------------------------------------------------------------------
(* Routes *)

\* the validated data of a Route write: title is required on create, user and
\* group are nullable foreign keys and may be left out
RouteOwners(dicts) ==
    Optional(Optional(dicts, "user", UserIds \cup {Null}),
             "group", GroupIds \cup {Null})

RouteCreateData == RouteOwners([title : Titles])
RouteUpdateData == RouteOwners([title : Titles])

\* the fields of WriteRouteSerializer: Route.user is a foreign key to Member
\* and Route.group one to Group, so a key that is given must be the primary
\* key of a stored row; any other is turned down before validate() runs
RouteFieldsValid(data) ==
    /\ Get(data, "user") # Null => data.user \in MemberRows
    /\ Get(data, "group") # Null => data.group \in GroupRows

\* the owner the three methods resolve: a failed lookup leaves None
RouteUser(data) == MemberGet(Get(data, "user"))
RouteGroup(data) == Get(data, "group")

\* validate() turning down only the write that names both owners
WriteRouteValidate_BothOnly(data) ==
    ~(RouteUser(data) # Null /\ RouteGroup(data) # Null)

\* validate() turning down only the write that names no owner
WriteRouteValidate_NeitherOnly(data) ==
    ~(RouteUser(data) = Null /\ RouteGroup(data) = Null)

\* WriteRouteSerializer.validate: TRUE when it returns the data
WriteRouteValidate(data) ==
    ~ \/ RouteUser(data) # Null /\ RouteGroup(data) # Null
      \/ RouteUser(data) = Null /\ RouteGroup(data) = Null

RouteIsValid(data) == RouteFieldsValid(data) /\ WriteRouteValidate(data)

\* WriteRouteSerializer.create: the row the parent's create stores
WriteRouteCreate(data) ==
    [title |-> data.title, user |-> RouteUser(data), group |-> RouteGroup(data)]

\* WriteRouteSerializer.update: the parent's update sets every key of the
\* validated data on the instance, user and group among them
WriteRouteUpdate(instance, data) ==
    [instance EXCEPT !.title = data.title,
                     !.user = RouteUser(data),
                     !.group = RouteGroup(data)]

RouteCreate ==
    /\ RouteRows # RouteIds
    /\ \E data \in RouteCreateData :
          IF RouteIsValid(data)
          THEN LET id == NextId(RouteIds, RouteRows)
               IN  /\ routes' = Save(routes, id, WriteRouteCreate(data))
                   /\ response' = [op |-> "route_create", id |-> id,
                                   data |-> data, outcome |-> Ok]
          ELSE /\ routes' = routes
               /\ response' = [op |-> "route_create", id |-> Null,
                               data |-> data, outcome |-> ValidationError]
    /\ UNCHANGED <<users, members, groups, notebooks, today>>
    /\ UNCHANGED otherTables

RouteUpdate ==
    /\ \E id \in RouteRows, data \in RouteUpdateData :
          IF RouteIsValid(data)
          THEN /\ routes' = Save(routes, id, WriteRouteUpdate(routes[id], data))
               /\ response' = [op |-> "route_update", id |-> id,
                               data |-> data, instance |-> routes[id],
                               outcome |-> Ok]
          ELSE /\ routes' = routes
               /\ response' = [op |-> "route_update", id |-> id,
                               data |-> data, instance |-> routes[id],
                               outcome |-> ValidationError]
    /\ UNCHANGED <<users, members, groups, notebooks, today>>
    /\ UNCHANGED otherTables

\* the rows registration leaves: every account registered, and of each
\* account either its Member or, after a failed Member save, none
RegisteredUsers ==
    [i \in UserIds |-> [password |-> make_password(2, 0),
                        email |-> "ann@sparrow.io"]]

RegisteredMembers ==
    {[i \in ids |-> [profilePhoto |-> DefaultProfilePhoto, birthDate |-> Null]] :
        ids \in SUBSET UserIds}

InitRoute ==
    /\ users = RegisteredUsers
    /\ members \in RegisteredMembers
    /\ groups = NoRows
    /\ routes = NoRows
    /\ notebooks = NoRows
    /\ today = 1
    /\ response = NoResponse
    /\ InitOtherTables

NextRoute == GroupCreate \/ RouteCreate \/ RouteUpdate

SpecRoute == InitRoute /\ [][NextRoute]_vars

----------------------------------------------------------------------------
(* Ratings *)

Comments == {"", "worth the climb"}

\* the validated data of a Rating write: route and attraction are nullable
\* and may be left out
RatingData ==
    Optional(Optional([user : UserIds, rating : Ratings, comment : Comments],
                      "route", RouteIds \cup {Null}),
             "attraction", AttractionIds \cup {Null})

\* validate() without its second branch
WriteRatingFlagValidate_BothOnly(data) ==
    ~(Get(data, "route") # Null /\ Get(data, "attraction") # Null)

\* WriteRatingFlagSerializer.validate: TRUE when it returns the data
WriteRatingFlagValidate(data) ==
    IF Get(data, "route") # Null /\ Get(data, "attraction") # Null
    THEN FALSE
    ELSE IF Get(data, "route") = Null /\ Get(data, "attraction") = Null
    THEN FALSE
    ELSE TRUE

\* the validation of a Rating write; the table it would then be written to is
\* not part of models.py
RatingValidate ==
    /\ \E data \in RatingData :
          response' = [op |-> "rating_validate", data |-> data,
                       outcome |-> IF WriteRatingFlagValidate(data)
                                   THEN Ok ELSE ValidationError]
    /\ UNCHANGED <<users, members, groups, routes, notebooks, today>>
    /\ UNCHANGED otherTables

InitRating ==
    /\ users = NoRows
    /\ members = NoRows
    /\ groups = NoRows
    /\ routes = NoRows
    /\ notebooks = NoRows
    /\ today = 1
    /\ response = NoResponse
    /\ InitOtherTables

NextRating == RatingValidate

SpecRating == InitRating /\ [][NextRating]_vars

----------------------------------------------------------------------------
(* Notebooks *)

Completed == "Completed"

\* self.context: no request, or the request of an account or of nobody
\* (request.user is then the AnonymousUser, whose primary key is None)
Contexts ==
    {<<>>} \cup {[request |-> [user |-> u]] : u \in UserIds \cup {Null}}

\* the validated data of a Notebook write: route is required and is a stored
\* Route, status has a default in the model and may be left out (title and
\* note are stored as given and play no part in the dates)
NotebookData == Optional([route : RouteRows], "status", StatusLabels)

\* the bodies of Notebook requests that may name an owner as well
NotebookBodies ==
    Optional([route : RouteRows, status : StatusLabels], "user", UserIds)

\* WriteNotebookSerializer.Meta.fields, without the title and the note
NotebookFields == {"route", "status"}

\* the validated data of a body: the keys that are fields of the serializer
NotebookValidated(body) ==
    [key \in DOMAIN body \cap NotebookFields |-> body[key]]

\* the owner looked up as the first Member of the table
NotebookOwner_FirstMember(context, data) ==
    IF MemberRows = {} THEN Null
    ELSE CHOOSE m \in MemberRows : \A other \in MemberRows : m <= other

\* create() and update(): the Member of the caller's account, who becomes
\* validated_data['user']; Null stands for the DoesNotExist the lookup raises
NotebookOwner(context, data) == MemberGet(context.request.user)

\* create() never stamping the completion date
NotebookCreateDateCompleted_Never(data) == Null

\* create(): the completion date of the new row
NotebookCreateDateCompleted(data) ==
    IF data.status = Completed THEN today ELSE Null

\* update() leaving "Completed" without clearing the completion date
NotebookUpdateDateCompleted_NotCleared(instance, data) ==
    IF data.status = Completed THEN today ELSE instance.dateCompleted

\* update() stamping the completion date only on the way into "Completed"
NotebookUpdateDateCompleted_NoRestamp(instance, data) ==
    IF data.status = Completed
    THEN IF instance.status = Completed THEN instance.dateCompleted ELSE today
    ELSE IF instance.status = Completed THEN Null
    ELSE instance.dateCompleted

\* update(): the completion date of the row, by the requested status and the
\* status the instance had
NotebookUpdateDateCompleted(instance, data) ==
    IF data.status = Completed THEN today
    ELSE IF instance.status = Completed THEN Null
    ELSE instance.dateCompleted

\* update() restarting the trip on every request for another status
NotebookUpdateDateStarted_AlwaysReset(instance, data) ==
    IF data.status = Completed THEN instance.dateStarted ELSE today

\* update() leaving "Completed" without a new start date
NotebookUpdateDateStarted_Kept(instance, data) == instance.dateStarted

\* update(): the start date of the row
NotebookUpdateDateStarted(instance, data) ==
    IF data.status = Completed THEN instance.dateStarted
    ELSE IF instance.status = Completed THEN today
    ELSE instance.dateStarted

\* WriteNotebookSerializer.create: the outcome and the row the parent's
\* create stores
WriteNotebookCreate(context, data) ==
    IF ~Has(context, "request")
    THEN [outcome |-> ValidationError]
    ELSE IF NotebookOwner(context, data) = Null
    THEN [outcome |-> DoesNotExist]
    ELSE IF ~Has(data, "status")
    THEN [outcome |-> KeyError]
    ELSE [outcome |-> Ok,
          row |-> [route |-> data.route,
                   user |-> NotebookOwner(context, data),
                   status |-> data.status,
                   dateStarted |-> today,
                   dateCompleted |-> NotebookCreateDateCompleted(data)]]

\* WriteNotebookSerializer.update: the outcome and the row the parent's
\* update saves
WriteNotebookUpdate(instance, context, data) ==
    IF ~Has(context, "request")
    THEN [outcome |-> ValidationError]
    ELSE IF NotebookOwner(context, data) = Null
    THEN [outcome |-> DoesNotExist]
    ELSE IF ~Has(data, "status")
    THEN [outcome |-> KeyError]
    ELSE [outcome |-> Ok,
          row |-> [route |-> data.route,
                   user |-> NotebookOwner(context, data),
                   status |-> data.status,
                   dateStarted |-> NotebookUpdateDateStarted(instance, data),
                   dateCompleted |->
                       NotebookUpdateDateCompleted(instance, data)]]

\* a create request with one of the bodies `bodies`
NotebookCreateFrom(bodies) ==
    /\ NotebookRows # NotebookIds
    /\ \E context \in Contexts, body \in bodies :
          LET data == NotebookValidated(body)
              r == WriteNotebookCreate(context, data)
              id == NextId(NotebookIds, NotebookRows)
          IN  /\ notebooks' = IF r.outcome = Ok
                              THEN Save(notebooks, id, r.row) ELSE notebooks
              /\ response' = [op |-> "notebook_create",
                              id |-> IF r.outcome = Ok THEN id ELSE Null,
                              context |-> context, body |-> body,
                              data |-> data,
                              today |-> today, outcome |-> r.outcome]
    /\ UNCHANGED <<users, members, groups, routes, today>>
    /\ UNCHANGED otherTables

\* an update request with one of the bodies `bodies`
NotebookUpdateFrom(bodies) ==
    /\ \E id \in NotebookRows, context \in Contexts, body \in bodies :
          LET data == NotebookValidated(body)
              r == WriteNotebookUpdate(notebooks[id], context, data)
          IN  /\ notebooks' = IF r.outcome = Ok
                              THEN Save(notebooks, id, r.row) ELSE notebooks
              /\ response' = [op |-> "notebook_update", id |-> id,
                              context |-> context, body |-> body,
                              data |-> data, instance |-> notebooks[id],
                              today |-> today, outcome |-> r.outcome]
    /\ UNCHANGED <<users, members, groups, routes, today>>
    /\ UNCHANGED otherTables

\* the requests whose bodies hold fields of the serializer only
NotebookCreate == NotebookCreateFrom(NotebookData)
NotebookUpdate == NotebookUpdateFrom(NotebookData)

\* the requests whose bodies may name an owner
NotebookCreateNamingOwner == NotebookCreateFrom(NotebookBodies)
NotebookUpdateNamingOwner == NotebookUpdateFrom(NotebookBodies)

\* midnight: date.today() moves on
Tick ==
    /\ today < MaxDay
    /\ today' = today + 1
    /\ UNCHANGED <<users, members, groups, routes, notebooks, response>>
    /\ UNCHANGED otherTables

\* the rows the Route and Group writes leave: one group and its route
InitNotebook ==
    /\ users = RegisteredUsers
    /\ members = [i \in UserIds |->
                     [profilePhoto |-> DefaultProfilePhoto, birthDate |-> Null]]
    /\ groups = (1 :> [name |-> "hikers"])
    /\ routes = (1 :> [title |-> "Alps", user |-> Null, group |-> 1])
    /\ notebooks = NoRows
    /\ today = 1
    /\ response = NoResponse
    /\ InitOtherTables

NextNotebook == NotebookCreate \/ NotebookUpdate \/ Tick

SpecNotebook == InitNotebook /\ [][NextNotebook]_vars

\* the notebook writes of one day, with bodies that may name an owner
NextNotebookOwner == NotebookCreateNamingOwner \/ NotebookUpdateNamingOwner

SpecNotebookOwner == InitNotebook /\ [][NextNotebookOwner]_vars

-----------------------------------------------------------------------------
(* Memberships: BelongsTo and WriteBelongsToSerializer *)

BelongsToRows == DOMAIN belongsTo

Nicknames == {"Scout"}

\* the validated data of a BelongsTo write: member and group are primary keys
\* of stored rows, nickname may be left out
BelongsToData ==
    Optional([member : MemberRows, group : GroupRows, isAdmin : BOOLEAN],
             "nickname", Nicknames)

\* the rows of the table that join the member and the group of data
BelongsToOfPair(data) ==
    {id \in BelongsToRows : /\ belongsTo[id].member = data.member
                            /\ belongsTo[id].group = data.group}

\* a BelongsTo without unique_together
BelongsToUnique_Unchecked(data) == TRUE

\* unique_together = ('member', 'group'): the validator the ModelSerializer
\* derives from it, which the database constraint backs
BelongsToUnique(data) == BelongsToOfPair(data) = {}

\* WriteBelongsToSerializer: the ModelSerializer's own validation and create
BelongsToCreate ==
    /\ BelongsToRows # BelongsToIds
    /\ \E data \in BelongsToData :
          LET id == NextId(BelongsToIds, BelongsToRows)
          IN  IF BelongsToUnique(data)
              THEN /\ belongsTo' = Save(belongsTo, id,
                                        [member |-> data.member,
                                         group |-> data.group,
                                         isAdmin |-> data.isAdmin,
                                         nickname |-> Get(data, "nickname")])
                   /\ response' = [op |-> "belongs_to_create", id |-> id,
                                   data |-> data, outcome |-> Ok]
              ELSE /\ belongsTo' = belongsTo
                   /\ response' = [op |-> "belongs_to_create", id |-> Null,
                                   data |-> data, outcome |-> ValidationError]
    /\ UNCHANGED <<users, members, groups, routes, notebooks, today>>
    /\ UNCHANGED <<attractions, isWithin, statuses, images>>

\* every registered account has its Member and every group exists
InitMembership ==
    /\ users = RegisteredUsers
    /\ members = [i \in UserIds |->
                     [profilePhoto |-> DefaultProfilePhoto, birthDate |-> Null]]
    /\ groups = [g \in GroupIds |-> [name |-> "hikers"]]
    /\ routes = NoRows
    /\ notebooks = NoRows
    /\ today = 1
    /\ response = NoResponse
    /\ InitOtherTables

NextMembership == BelongsToCreate

SpecMembership == InitMembership /\ [][NextMembership]_vars

-----------------------------------------------------------------------------
(* Deletion: Model.delete() with the on_delete=CASCADE of every foreign key *)

AttractionRows == DOMAIN attractions
IsWithinRows == DOMAIN isWithin
StatusRows == DOMAIN statuses
ImageRows == DOMAIN images

\* the table without the rows of `doomed`
Without(table, doomed) == [i \in DOMAIN table \ doomed |-> table[i]]

\* Member.baseUser: the Members deleted with the accounts of `us`
MemberCascade(us) == {m \in MemberRows : m \in us}

\* a Route whose group foreign key does not cascade
RouteCascade_IgnoringGroup(ms, gs) ==
    {r \in RouteRows : routes[r].user \in ms}

\* Route.user and Route.group: the Routes deleted with the Members of `ms`
\* and the Groups of `gs`
RouteCascade(ms, gs) ==
    {r \in RouteRows : routes[r].user \in ms \/ routes[r].group \in gs}

\* BelongsTo.member and BelongsTo.group
BelongsToCascade(ms, gs) ==
    {b \in BelongsToRows : belongsTo[b].member \in ms
                              \/ belongsTo[b].group \in gs}

\* isWithin.route and isWithin.attraction
isWithinCascade(rs, as) ==
    {w \in IsWithinRows : isWithin[w].route \in rs
                             \/ isWithin[w].attraction \in as}

\* Notebook.route, Notebook.user and Notebook.status
NotebookCascade(rs, ms, ss) ==
    {n \in NotebookRows : \/ notebooks[n].route \in rs
                          \/ notebooks[n].user \in ms
                          \/ notebooks[n].status \in ss}

\* Image.notebook and Image.attraction
ImageCascade(ns, as) ==
    {i \in ImageRows : images[i].notebook \in ns
                          \/ images[i].attraction \in as}

\* delete() of the rows us of User, ms of Member, gs of Group, rs of Route,
\* as of Attraction, ns of Notebook and ss of Status: the rows are collected
\* along the foreign keys, parents first, and deleted together
Delete(op, id, us, ms, gs, rs, as, ns, ss) ==
    LET allMembers == ms \cup MemberCascade(us)
        allRoutes == rs \cup RouteCascade(allMembers, gs)
        allNotebooks == ns \cup NotebookCascade(allRoutes, allMembers, ss)
        allImages == ImageCascade(allNotebooks, as)
    IN  /\ users' = Without(users, us)
        /\ members' = Without(members, allMembers)
        /\ groups' = Without(groups, gs)
        /\ belongsTo' = Without(belongsTo, BelongsToCascade(allMembers, gs))
        /\ routes' = Without(routes, allRoutes)
        /\ attractions' = Without(attractions, as)
        /\ isWithin' = Without(isWithin, isWithinCascade(allRoutes, as))
        /\ statuses' = Without(statuses, ss)
        /\ notebooks' = Without(notebooks, allNotebooks)
        /\ images' = Without(images, allImages)
        /\ response' = [op |-> op, id |-> id, images |-> allImages,
                        outcome |-> Ok]
        /\ UNCHANGED today

UserDelete ==
    \E id \in UserRows : Delete("user_delete", id, {id}, {}, {}, {}, {}, {}, {})

MemberDelete ==
    \E id \in MemberRows :
        Delete("member_delete", id, {}, {id}, {}, {}, {}, {}, {})

GroupDelete ==
    \E id \in GroupRows :
        Delete("group_delete", id, {}, {}, {id}, {}, {}, {}, {})

RouteDelete ==
    \E id \in RouteRows :
        Delete("route_delete", id, {}, {}, {}, {id}, {}, {}, {})

AttractionDelete ==
    \E id \in AttractionRows :
        Delete("attraction_delete", id, {}, {}, {}, {}, {id}, {}, {})

NotebookDelete ==
    \E id \in NotebookRows :
        Delete("notebook_delete", id, {}, {}, {}, {}, {}, {id}, {})

StatusDelete ==
    \E id \in StatusRows :
        Delete("status_delete", id, {}, {}, {}, {}, {}, {}, {id})

\* the i-th of n rows, counting round
Wrap(i, n) == ((i - 1) % n) + 1

\* a database in use: every account has its Member and a membership, the
\* routes belong to groups and members in turn, every route passes every
\* attraction, the notebooks are spread over routes and members, and the
\* images show notebooks and attractions in turn
InitCascade ==
    /\ users = RegisteredUsers
    /\ members = [i \in UserIds |->
                     [profilePhoto |-> DefaultProfilePhoto, birthDate |-> Null]]
    /\ groups = [g \in GroupIds |-> [name |-> "hikers"]]
    /\ belongsTo = [b \in BelongsToIds \cap UserIds |->
                       [member |-> b, group |-> Wrap(b, MaxGroups),
                        isAdmin |-> b = 1, nickname |-> Null]]
    /\ routes = [r \in RouteIds |->
                    IF r % 2 = 1
                    THEN [title |-> "Alps", user |-> Null,
                          group |-> Wrap((r + 1) \div 2, MaxGroups)]
                    ELSE [title |-> "Alps", group |-> Null,
                          user |-> Wrap(r \div 2, MaxUsers)]]
    /\ attractions = [a \in AttractionIds |-> [name |-> "Matterhorn"]]
    /\ isWithin = [w \in IsWithinIds |->
                      [route |-> ((w - 1) \div MaxAttractions) + 1,
                       attraction |-> Wrap(w, MaxAttractions),
                       orderNumber |-> Wrap(w, MaxAttractions)]]
    /\ statuses = StatusTable
    /\ notebooks = [n \in NotebookIds |->
                       [route |-> Wrap(n, MaxRoutes),
                        user |-> Wrap(n, MaxUsers),
                        status |-> IF n % 2 = 1 THEN Completed ELSE "Ongoing",
                        dateStarted |-> 1,
                        dateCompleted |-> IF n % 2 = 1 THEN 1 ELSE Null]]
    /\ images = [i \in ImageIds |->
                    IF i % 2 = 1
                    THEN [imagePath |-> "summit.jpeg", attraction |-> Null,
                          notebook |-> Wrap((i + 1) \div 2, MaxNotebooks)]
                    ELSE [imagePath |-> "summit.jpeg", notebook |-> Null,
                          attraction |-> Wrap(i \div 2, MaxAttractions)]]
    /\ today = 1
    /\ response = NoResponse

NextCascade ==
    \/ UserDelete
    \/ MemberDelete
    \/ GroupDelete
    \/ RouteDelete
    \/ AttractionDelete
    \/ NotebookDelete
    \/ StatusDelete

SpecCascade == InitCascade /\ [][NextCascade]_vars

----------------------------------------------------------------------------
(* Claims on registration and the change of password *)

PasswordsDiffer(data) == data.baseUser.password # data.baseUser.passwordCheck

EmailMissing(data) ==
    ~Has(data.baseUser, "email") \/ data.baseUser.email = ""

\* C4: a registration whose password differs from passwordCheck, or whose
\* email is missing or empty, ends in a validation error and adds no row to
\* the User table and no row to the Member table.
C4_RejectedRegistrationAddsNoRow ==
    [][(/\ response'.op = "register"
        /\ PasswordsDiffer(response'.data) \/ EmailMissing(response'.data))
       => (/\ response'.outcome = ValidationError
           /\ users' = users
           /\ members' = members)]_vars

C4_Witness ==
    /\ response.op = "register"
    /\ PasswordsDiffer(response.data)
    /\ ~EmailMissing(response.data)
    /\ response.outcome = ValidationError
    /\ UserRows = {}

\* C5: after any registration attempt every account row has its Member row
\* (the Member's primary key is the account, so it has at most one).
C5_NoOrphanedAccount == \A i \in UserRows : i \in MemberRows

\* C6: a change of password whose current password does not match the stored
\* hash, or whose new password fails the policy, leaves every stored
\* credential as it was; so a credential changes only when both checks pass.
C6_FailedChangeKeepsCredential ==
    [][(/\ response'.op = "change_password"
        /\ \/ ~check_password(response'.data.password,
                              users[response'.id].password)
           \/ ~validate_password(response'.data.newPassword))
       => (/\ response'.outcome = ValidationError
           /\ users' = users)]_vars

C6_Witness ==
    /\ response.op = "change_password"
    /\ response.outcome = ValidationError
    /\ check_password(response.data.password, users[response.id].password)
    /\ ~validate_password(response.data.newPassword)

----------------------------------------------------------------------------
(* Claims on routes *)

RouteOps == {"route_create", "route_update"}

\* C2: for every Route write whose fields reach validate(), with every
\* combination of user and group in the payload, the write is accepted if and
\* only if exactly one of the two is given; both given and both missing are
\* rejected.
C2_RouteAcceptedIffOneOwner ==
    (response.op \in RouteOps /\ RouteFieldsValid(response.data))
    => (response.outcome = Ok
        <=> (Get(response.data, "user") # Null) # (Get(response.data, "group") # Null))

C2_Witness ==
    /\ response.op = "route_update"
    /\ RouteFieldsValid(response.data)
    /\ Get(response.data, "user") # Null
    /\ Get(response.data, "group") # Null
    /\ response.outcome = ValidationError

\* C3: every stored Route has exactly one of user and group set.
C3_RouteHasOneOwner ==
    \A r \in RouteRows : (routes[r].user # Null) # (routes[r].group # Null)

C3_Witness ==
    /\ response.op = "route_update"
    /\ response.outcome = Ok
    /\ response.instance.user # Null
    /\ routes[response.id].group # Null
    /\ routes[response.id].user = Null

----------------------------------------------------------------------------
(* Claims on ratings *)

\* C7: for every combination of route and attraction in the payload of a
\* Rating write, validate() accepts if and only if exactly one of the two is
\* given; neither and both are rejected.
C7_RatingAcceptedIffOneTarget ==
    response.op = "rating_validate"
    => (response.outcome = Ok
        <=> (Get(response.data, "route") # Null)
              # (Get(response.data, "attraction") # Null))

C7_Witness ==
    /\ response.op = "rating_validate"
    /\ Get(response.data, "route") # Null
    /\ Get(response.data, "attraction") # Null
    /\ response.outcome = ValidationError

----------------------------------------------------------------------------
(* Claims on notebooks *)

Created == response.op = "notebook_create" /\ response.outcome = Ok
Updated == response.op = "notebook_update" /\ response.outcome = Ok

\* C1: every stored Notebook has a completion date if and only if its status
\* is "Completed".
C1_CompletionDateIffCompleted ==
    \A n \in NotebookRows :
        notebooks[n].dateCompleted # Null <=> notebooks[n].status = Completed

C1_Witness ==
    /\ Updated
    /\ response.instance.status = Completed
    /\ response.instance.dateCompleted # Null
    /\ notebooks[response.id].status = "Ongoing"
    /\ notebooks[response.id].dateCompleted = Null

\* C8: a created Notebook starts today; it is completed today when its
\* initial status is "Completed" and has no completion date otherwise.
C8_CreateStampsDates ==
    Created
    => /\ notebooks[response.id].dateStarted = response.today
       /\ notebooks[response.id].dateCompleted =
              IF response.data.status = Completed THEN response.today ELSE Null

C8_Witness ==
    /\ Created
    /\ response.data.status = Completed
    /\ response.today > 1
    /\ notebooks[response.id].dateCompleted = response.today

\* C9: an update from "Completed" to another status clears the completion
\* date and sets the start date to today, whatever it was before.
C9_ReopenRestartsTheTrip ==
    (Updated /\ response.instance.status = Completed
             /\ response.data.status # Completed)
    => /\ notebooks[response.id].dateCompleted = Null
       /\ notebooks[response.id].dateStarted = response.today

C9_Witness ==
    /\ Updated
    /\ response.instance.status = Completed
    /\ response.data.status # Completed
    /\ response.instance.dateStarted < response.today
    /\ notebooks[response.id].dateStarted = response.today

\* C10: an update to "Completed", from any status, sets the completion date
\* to today and leaves the start date as it was.
C10_CompleteStampsToday ==
    (Updated /\ response.data.status = Completed)
    => /\ notebooks[response.id].dateCompleted = response.today
       /\ notebooks[response.id].dateStarted = response.instance.dateStarted

C10_Witness ==
    /\ Updated
    /\ response.data.status = Completed
    /\ response.instance.status = Completed
    /\ response.instance.dateCompleted < response.today
    /\ notebooks[response.id].dateStarted < response.today

----------------------------------------------------------------------------
(* Claims on the caller of a notebook write *)

NotebookOps == {"notebook_create", "notebook_update"}

\* the caller is not authenticated: the serializer has no request, or the
\* request is the AnonymousUser's
Unauthenticated(context) ==
    ~Has(context, "request") \/ context.request.user = Null

\* C11: a Notebook create or update by a caller who is not authenticated ends
\* in a validation error, and no Notebook is created or modified.
C11_UnauthenticatedWriteIsValidationError ==
    (response.op \in NotebookOps /\ Unauthenticated(response.context))
    => /\ response.outcome = ValidationError
       /\ response.op = "notebook_create" => response.id = Null
       /\ response.op = "notebook_update"
            => notebooks[response.id] = response.instance

\* C12: a created Notebook belongs to the caller's own Member, and an updated
\* one to the Member it belonged to or to the caller's own: never to another
\* Member, whatever owner the body of the request names.
C12_OwnerIsNeverAThirdMember ==
    /\ Created => notebooks[response.id].user = response.context.request.user
    /\ Updated => notebooks[response.id].user \in
                      {response.instance.user, response.context.request.user}

C12_Witness ==
    /\ Updated
    /\ Has(response.body, "user")
    /\ response.body.user # response.context.request.user
    /\ response.instance.user # response.context.request.user
    /\ notebooks[response.id].user = response.context.request.user

\* two rows of the BelongsTo table join the same member and group
SamePair(table, a, b) ==
    table[a].member = table[b].member /\ table[a].group = table[b].group

\* C13: after every Membership creation the table holds at most one row per
\* (member, group) pair, and a creation for a pair that already has a row is
\* rejected with a validation error and leaves the table as it was.
C13_OneMembershipPerPair ==
    [][/\ \A a, b \in DOMAIN belongsTo' :
              SamePair(belongsTo', a, b) => a = b
       /\ (response'.op = "belongs_to_create"
              /\ BelongsToOfPair(response'.data) # {})
           => /\ response'.outcome = ValidationError
              /\ belongsTo' = belongsTo]_vars

\* a second row for a pair was asked for with the other isAdmin flag, and was
\* rejected: the pair's row still has its own flag
C13_Witness ==
    /\ response.op = "belongs_to_create"
    /\ response.outcome = ValidationError
    /\ \E id \in BelongsToOfPair(response.data) :
          belongsTo[id].isAdmin # response.data.isAdmin

DeleteOps ==
    {"user_delete", "member_delete", "group_delete", "route_delete",
     "attraction_delete", "notebook_delete", "status_delete"}

\* the table that a delete request names a row of
DeletedFrom(op) ==
    CASE op = "user_delete" -> UserRows
      [] op = "member_delete" -> MemberRows
      [] op = "group_delete" -> GroupRows
      [] op = "route_delete" -> RouteRows
      [] op = "attraction_delete" -> AttractionRows
      [] op = "notebook_delete" -> NotebookRows
      [] op = "status_delete" -> StatusRows

\* a foreign key that is null or names a stored row
Refers(ref, rows) == ref = Null \/ ref \in rows

\* C14: after a deletion the deleted record is gone, and every foreign key of
\* every stored Member, BelongsTo, Route, isWithin, Notebook and Image names a
\* stored record: nothing that referenced a deleted record remains.
C14_NoReferenceToDeletedRecord ==
    /\ response.op \in DeleteOps => response.id \notin DeletedFrom(response.op)
    /\ \A m \in MemberRows : m \in UserRows
    /\ \A b \in BelongsToRows : /\ belongsTo[b].member \in MemberRows
                                /\ belongsTo[b].group \in GroupRows
    /\ \A r \in RouteRows : /\ Refers(routes[r].user, MemberRows)
                            /\ Refers(routes[r].group, GroupRows)
    /\ \A w \in IsWithinRows : /\ isWithin[w].route \in RouteRows
                               /\ isWithin[w].attraction \in AttractionRows
    /\ \A n \in NotebookRows : /\ notebooks[n].route \in RouteRows
                               /\ notebooks[n].user \in MemberRows
                               /\ notebooks[n].status \in StatusRows
    /\ \A i \in ImageRows : /\ Refers(images[i].notebook, NotebookRows)
                            /\ Refers(images[i].attraction, AttractionRows)

\* an account was deleted and an Image went with it, through the account's
\* Member and the Member's Notebook, while other records are still stored
C14_Witness ==
    /\ response.op = "user_delete"
    /\ response.images # {}
    /\ RouteRows # {}
    /\ ImageRows # {}

\* C15: an update whose requested status is not "Completed", of a Notebook
\* whose status was not "Completed", leaves both dates as they were.
C15_OtherTransitionKeepsDates ==
    (Updated /\ response.instance.status # Completed
             /\ response.data.status # Completed)
    => /\ notebooks[response.id].dateStarted = response.instance.dateStarted
       /\ notebooks[response.id].dateCompleted =
              response.instance.dateCompleted

C15_Witness ==
    /\ Updated
    /\ response.instance.status = "Ongoing"
    /\ response.data.status = "Planned"
    /\ response.instance.dateStarted < response.today
    /\ notebooks[response.id].dateStarted = response.instance.dateStarted

====
